---------------------------- MODULE Spec2Model ----------------------------
(***************************************************************************)
(* Model of ex_app/lib/main.py (cloud-py-api/vix): the ExApp shim that     *)
(* answers the host's lifecycle calls, proxies /api/... to the local       *)
(* backend with httpx, and serves every other path from the file system.   *)
(*                                                                         *)
(* One request is followed from the router to its response.  A request     *)
(* path is the text after the leading "/" (what Starlette binds to         *)
(* {path:path}).  Texts are TLA+ strings; Len, \o and SubSeq work on them. *)
(***************************************************************************)
EXTENDS Integers, Sequences, FiniteSets, TLC

VARIABLES
    req,        \* the request last received (NoReq before the first one)
    handler,    \* the handler function the router ran for req
    pc,         \* "idle", or "await_backend" inside proxy_backend_requests
    call,       \* the backend calls issued for req, in order
    clients,    \* number of httpx.AsyncClient contexts currently open
    backend,    \* what the backend call produced for req
    resp,       \* what the client gets for req
    entry,      \* what proxy_requests found at the resolved path for req
    issued,     \* the host SDK calls made while handling req, in order
    hostLog,    \* every call made on the host SDK (nc.ui...), in order
    tasks       \* the background tasks scheduled by /init, each with its state

vars == <<req, handler, pc, call, clients, backend, resp, entry, issued, hostLog, tasks>>

----------------------------------------------------------------------------
(* Bounds of the model.                                                    *)

MaxReqHeaders == 2
MaxRespHeaders == 2
MaxHostLog == 4
MaxTasks == 2

----------------------------------------------------------------------------
(* Text helpers.                                                           *)

CharAt(s, i) == SubSeq(s, i, i)

\* str.startswith
StartsWith(s, prefix) ==
    /\ Len(s) >= Len(prefix)
    /\ SubSeq(s, 1, Len(prefix)) = prefix

DropPrefix(s, n) == SubSeq(s, n + 1, Len(s))

LowerChar(c) ==
    CASE c = "A" -> "a" [] c = "C" -> "c" [] c = "E" -> "e" [] c = "H" -> "h"
      [] c = "S" -> "s" [] c = "T" -> "t" [] c = "X" -> "x"
      [] OTHER -> c

\* str.lower
RECURSIVE Lower(_)
Lower(s) == IF s = "" THEN "" ELSE LowerChar(CharAt(s, 1)) \o Lower(Tail(s))

\* str(n) for a natural number n
RECURSIVE IntStr(_)
IntStr(n) ==
    IF n < 10 THEN CharAt("0123456789", n + 1)
    ELSE IntStr(n \div 10) \o CharAt("0123456789", (n % 10) + 1)

\* str(len(body))
LenStr(s) == IntStr(Len(s))

\* The segments of a path text, split at "/".
RECURSIVE SplitFrom(_, _, _)
SplitFrom(s, i, cur) ==
    IF i > Len(s) THEN <<cur>>
    ELSE IF CharAt(s, i) = "/" THEN <<cur>> \o SplitFrom(s, i + 1, "")
    ELSE SplitFrom(s, i + 1, cur \o CharAt(s, i))

Segments(s) == SplitFrom(s, 1, "")

----------------------------------------------------------------------------
(* Requests and responses.                                                 *)

NoReq == [method |-> "", path |-> "", query |-> "", headers |-> <<>>, body |-> ""]

NoResp == [kind |-> "none"]

\* An exception that leaves the handler (or the sending of its response): the
\* server answers with its default 500.
ServerError == [kind |-> "error", status |-> 500]

\* starlette Response.__init__/init_headers: the given headers, plus a
\* content-length when none was given.
Response(content, status_code, headers) ==
    [kind |-> "response", status |-> status_code, body |-> content,
     headers |-> IF "content-length" \in DOMAIN headers THEN headers
                 ELSE headers @@ ("content-length" :> LenStr(content))]

NoHeaders == [k \in {} |-> ""]

\* responses.JSONResponse(content=...): the rendered JSON text, status 200.
JSONResponse(text) ==
    [kind |-> "response", status |-> 200, body |-> text,
     headers |-> ("content-length" :> LenStr(text)) @@
                 ("content-type" :> "application/json")]

RouteMethods ==
    {"GET", "POST", "PUT", "DELETE", "OPTIONS", "HEAD", "PATCH", "TRACE"}

\* The routes FastAPI() adds to a new application by default, before any other:
\* the OpenAPI document and the documentation pages, for GET and HEAD.
DocRoutes ==
    << [name |-> "openapi", kind |-> "exact", path |-> "openapi.json",
        methods |-> {"GET", "HEAD"}],
       [name |-> "swagger_ui_html", kind |-> "exact", path |-> "docs",
        methods |-> {"GET", "HEAD"}],
       [name |-> "swagger_ui_redirect", kind |-> "exact",
        path |-> "docs/oauth2-redirect", methods |-> {"GET", "HEAD"}],
       [name |-> "redoc_html", kind |-> "exact", path |-> "redoc",
        methods |-> {"GET", "HEAD"}] >>

DocHandlers == {DocRoutes[i].name : i \in DOMAIN DocRoutes}

\* The routes in the order they are added to APP.  "exact" is a literal path,
\* "prefix" a path ending in {path:path}, which binds the rest.
Routes ==
    DocRoutes \o
    << [name |-> "heartbeat_callback", kind |-> "exact", path |-> "heartbeat",
        methods |-> {"GET"}],
       [name |-> "init_callback", kind |-> "exact", path |-> "init",
        methods |-> {"POST"}],
       [name |-> "enabled_callback", kind |-> "exact", path |-> "enabled",
        methods |-> {"PUT"}],
       [name |-> "proxy_backend_requests", kind |-> "prefix", path |-> "api/",
        methods |-> RouteMethods],
       [name |-> "proxy_requests", kind |-> "prefix", path |-> "",
        methods |-> RouteMethods] >>

\* starlette Route.matches: NONE when the path does not match, PARTIAL when
\* only the method is wrong, FULL otherwise.
Matches(route, method, path) ==
    LET pathOk == IF route.kind = "exact" THEN path = route.path
                  ELSE StartsWith(path, route.path)
    IN  IF ~pathOk THEN "NONE"
        ELSE IF method \in route.methods THEN "FULL"
        ELSE "PARTIAL"

\* Dispatch in which the first route whose path matches answers, with 405 when
\* the method is not one of its own.
DispatchFirstPath(method, path) ==
    LET hit == {i \in DOMAIN Routes : Matches(Routes[i], method, path) # "NONE"}
        i0 == CHOOSE i \in hit : \A j \in hit : i <= j
    IN  IF hit = {} THEN "not_found"
        ELSE IF Matches(Routes[i0], method, path) = "FULL" THEN Routes[i0].name
        ELSE "method_not_allowed"

\* starlette Router.app: the first FULL match handles the request; with none,
\* the first PARTIAL match answers 405 without running its handler.
Dispatch(method, path) ==
    LET full == {i \in DOMAIN Routes : Matches(Routes[i], method, path) = "FULL"}
        part == {i \in DOMAIN Routes : Matches(Routes[i], method, path) = "PARTIAL"}
        first(S) == CHOOSE i \in S : \A j \in S : i <= j
    IN  IF full # {} THEN Routes[first(full)].name
        ELSE IF part # {} THEN "method_not_allowed"
        ELSE "not_found"

\* The value bound to {path:path} of the route that handles the request.
PathParam(name, path) ==
    IF name = "proxy_backend_requests" THEN DropPrefix(path, 4) ELSE path

\* No request is being handled: the server waits for the next one.
Idle == pc = "idle" /\ req = NoReq

\* The response has gone out: what belonged to the request is dropped.
Complete ==
    /\ pc = "idle"
    /\ req # NoReq
    /\ req' = NoReq
    /\ handler' = "none"
    /\ call' = <<>>
    /\ backend' = NoResp
    /\ resp' = NoResp
    /\ entry' = "none"
    /\ issued' = <<>>
    /\ UNCHANGED <<pc, clients, hostLog, tasks>>

MethodNotAllowed == [kind |-> "response", status |-> 405,
                     body |-> "Method Not Allowed", headers |-> NoHeaders]

----------------------------------------------------------------------------
(* Static proxy: proxy_requests.                                           *)

CSP == "default-src * 'unsafe-inline' 'unsafe-eval' data: blob:;"

\* FileServerPath without the branch for the reserved prefix.
FileServerPathNoPrefix(path) ==
    IF path = "" THEN "../../Visionatrix/visionatrix/client/index.html"
    ELSE "../../Visionatrix/visionatrix/client/" \o path

\* The text handed to Path(...).
FileServerPath(path) ==
    IF StartsWith(path, "ex_app") THEN "../../" \o path
    ELSE IF path = "" THEN "../../Visionatrix/visionatrix/client/index.html"
    ELSE "../../Visionatrix/visionatrix/client/" \o path

\* The working directory, as segments below the directory "../.." names:
\* main.py lives in ex_app/lib and the process runs there.
Cwd == <<"ex_app", "lib">>

\* Where the operating system finds a relative path: the segments walked from
\* loc.  up counts the levels above the directory "../.." of Cwd names, segs
\* are the names below that point.
RECURSIVE Walk(_, _)
Walk(loc, segs) ==
    IF segs = <<>> THEN loc
    ELSE LET s == Head(segs)
             next == IF s = "" \/ s = "." THEN loc
                     ELSE IF s = ".." THEN
                         IF loc.segs = <<>> THEN [loc EXCEPT !.up = @ + 1]
                         ELSE [loc EXCEPT !.segs = SubSeq(@, 1, Len(@) - 1)]
                     ELSE [loc EXCEPT !.segs = Append(@, s)]
         IN  Walk(next, Tail(segs))

Resolve(text) == Walk([up |-> 0, segs |-> Cwd], Segments(text))

\* What may be at a location: nothing, a regular file or a directory.  The
\* directories on the way to the working directory are directories.
IsPrefixSeq(a, b) == Len(a) <= Len(b) /\ SubSeq(b, 1, Len(a)) = a

KindsAt(loc) ==
    IF loc.segs = <<>> \/ (loc.up = 0 /\ IsPrefixSeq(loc.segs, Cwd))
    THEN {"dir"}
    ELSE {"absent", "file", "dir"}

\* Path.exists()
Exists(kind) == kind # "absent"

\* FileResponse without the policy header.
FileResponseNoPolicy(text, kind) ==
    IF kind = "file"
    THEN [kind |-> "file", status |-> 200, file |-> Resolve(text), headers |-> NoHeaders]
    ELSE ServerError

\* FileResponse(path) with the policy header set on it, as the client gets it:
\* sending it stats the path and raises RuntimeError unless it is a regular file.
FileResponse(text, kind) ==
    IF kind = "file"
    THEN [kind |-> "file", status |-> 200, file |-> Resolve(text),
          headers |-> ("content-security-policy" :> CSP)]
    ELSE ServerError

ProxyRequestsResult(path, kind) ==
    IF ~Exists(kind) THEN Response("", 404, NoHeaders)
    ELSE FileResponse(FileServerPath(path), kind)

ProxyRequests(r, kind) ==
    /\ Idle
    /\ Dispatch(r.method, r.path) = "proxy_requests"
    /\ kind \in KindsAt(Resolve(FileServerPath(PathParam("proxy_requests", r.path))))
    /\ req' = r
    /\ handler' = "proxy_requests"
    /\ entry' = kind
    /\ resp' = ProxyRequestsResult(PathParam("proxy_requests", r.path), kind)
    /\ call' = <<>>
    /\ backend' = NoResp
    /\ UNCHANGED <<pc, clients, hostLog, tasks, issued>>

\* A request for one of the pages FastAPI serves itself.
DocsPage(r) ==
    /\ Idle
    /\ Dispatch(r.method, r.path) \in DocHandlers
    /\ req' = r
    /\ handler' = Dispatch(r.method, r.path)
    /\ resp' = [kind |-> "response", status |-> 200, body |-> "<docs>",
                headers |-> NoHeaders]
    /\ call' = <<>>
    /\ backend' = NoResp
    /\ UNCHANGED <<pc, clients, hostLog, tasks, entry, issued>>

\* A request no route fully matches: the router answers, no handler runs.
RouterRejects(r) ==
    /\ Idle
    /\ Dispatch(r.method, r.path) = "method_not_allowed"
    /\ req' = r
    /\ handler' = "none"
    /\ resp' = MethodNotAllowed
    /\ call' = <<>>
    /\ backend' = NoResp
    /\ UNCHANGED <<pc, clients, hostLog, tasks, entry, issued>>

----------------------------------------------------------------------------
(* API proxy: proxy_backend_requests.                                      *)

\* request.headers.items(): every header line the client sent, in order, the
\* names lower-cased by the ASGI server.  A name sent twice appears twice.
HeaderItems(r) ==
    [i \in DOMAIN r.headers |-> <<Lower(r.headers[i][1]), r.headers[i][2]>>]

\* A dict built from (key, value) items in order: a later item replaces an
\* earlier one with the same key.
DictOf(items) ==
    LET keys == {items[i][1] : i \in DOMAIN items}
        last(k) == CHOOSE i \in DOMAIN items :
                      /\ items[i][1] = k
                      /\ \A j \in DOMAIN items : items[j][1] = k => j <= i
    IN  [k \in keys |-> items[last(k)][2]]

\* {key: value for key, value in request.headers.items()
\*  if key.lower() not in ("host", "cookie")}
ForwardedHeaders(r) ==
    DictOf(SelectSeq(HeaderItems(r),
                     LAMBDA kv : Lower(kv[1]) \notin {"host", "cookie"}))

\* starlette cookie_parser on one "name=value" pair.
RECURSIVE IndexOfEq(_, _)
IndexOfEq(s, i) ==
    IF i > Len(s) THEN 0 ELSE IF CharAt(s, i) = "=" THEN i ELSE IndexOfEq(s, i + 1)

CookieParser(s) ==
    LET i == IndexOfEq(s, 1)
    IN  IF i = 0 THEN ("" :> s) ELSE (SubSeq(s, 1, i - 1) :> DropPrefix(s, i))

\* request.cookies: the parsed value of the first Cookie header, or {}.
RequestCookies(r) ==
    LET items == HeaderItems(r)
        idx == {i \in DOMAIN items : items[i][1] = "cookie"}
    IN  IF idx = {} THEN NoHeaders
        ELSE CookieParser(items[CHOOSE i \in idx : \A j \in idx : i <= j][2])

BackendUrl(path) == "http://127.0.0.1:8288/api/" \o path

\* BackendCall with the query parameters left out of client.request.
BackendCallNoParams(r, path) ==
    IF r.method = "GET"
    THEN [method |-> "GET", url |-> BackendUrl(path), params |-> r.query,
          cookies |-> RequestCookies(r), headers |-> ForwardedHeaders(r),
          content |-> ""]
    ELSE [method |-> r.method, url |-> BackendUrl(path), params |-> "",
          headers |-> ForwardedHeaders(r), cookies |-> RequestCookies(r),
          content |-> r.body]

\* The arguments of the one client call.  client.get is given no content: the
\* backend request then has an empty body.
BackendCall(r, path) ==
    IF r.method = "GET"
    THEN [method |-> "GET", url |-> BackendUrl(path), params |-> r.query,
          cookies |-> RequestCookies(r), headers |-> ForwardedHeaders(r),
          content |-> ""]
    ELSE [method |-> r.method, url |-> BackendUrl(path), params |-> r.query,
          headers |-> ForwardedHeaders(r), cookies |-> RequestCookies(r),
          content |-> r.body]

\* dict(response.headers): httpx.Headers lists each lower-cased name once and
\* gives for it the values of all its lines joined with ", ".
RECURSIVE JoinValues(_)
JoinValues(vs) ==
    IF Len(vs) = 1 THEN vs[1] ELSE vs[1] \o ", " \o JoinValues(Tail(vs))

ValuesOf(lines, k) ==
    LET sel == SelectSeq(lines, LAMBDA kv : Lower(kv[1]) = k)
    IN  [i \in DOMAIN sel |-> sel[i][2]]

HeadersDict(lines) ==
    [k \in {Lower(lines[i][1]) : i \in DOMAIN lines} |-> JoinValues(ValuesOf(lines, k))]

\* dict.pop(key, None)
Pop(d, key) == [k \in DOMAIN d \ {key} |-> d[k]]

ResponseHeader(b) == Pop(HeadersDict(b.headers), "transfer-encoding")

\* The Response built from the backend's response.
Relay(b) == Response(b.content, b.status_code, ResponseHeader(b))

BackendFailed == [kind |-> "fail"]

\* Entering the handler up to the awaited client call.
ProxyBackendRequests(r) ==
    /\ Idle
    /\ Dispatch(r.method, r.path) = "proxy_backend_requests"
    /\ req' = r
    /\ handler' = "proxy_backend_requests"
    /\ clients' = clients + 1
    /\ call' = <<BackendCall(r, PathParam("proxy_backend_requests", r.path))>>
    /\ pc' = "await_backend"
    /\ backend' = NoResp
    /\ resp' = NoResp
    /\ UNCHANGED <<hostLog, tasks, entry, issued>>

\* The call returns a response: it is relayed and the client context exits.
BackendResponds(b) ==
    /\ pc = "await_backend"
    /\ backend' = b
    /\ resp' = Relay(b)
    /\ clients' = clients - 1
    /\ pc' = "idle"
    /\ UNCHANGED <<req, handler, call, hostLog, tasks, entry, issued>>

\* BackendFails with a second attempt after the failure.
BackendFailsRetry ==
    /\ pc = "await_backend"
    /\ call' = Append(call, call[1])
    /\ UNCHANGED <<req, handler, pc, clients, backend, resp, entry, issued, hostLog, tasks>>

\* The call raises (connection refused, timeout, protocol error): the context
\* exits on the way out and the exception leaves the handler.
BackendFails ==
    /\ pc = "await_backend"
    /\ backend' = BackendFailed
    /\ resp' = ServerError
    /\ clients' = clients - 1
    /\ pc' = "idle"
    /\ UNCHANGED <<req, handler, call, hostLog, tasks, entry, issued>>

----------------------------------------------------------------------------
(* Lifecycle handlers.                                                     *)

HeartbeatCallback(r) ==
    /\ Idle
    /\ Dispatch(r.method, r.path) = "heartbeat_callback"
    /\ req' = r
    /\ handler' = "heartbeat_callback"
    /\ resp' = JSONResponse("{\"status\":\"ok\"}")
    /\ call' = <<>>
    /\ backend' = NoResp
    /\ UNCHANGED <<pc, clients, hostLog, tasks, entry, issued>>

\* b_tasks.add_task(fetch_models_task, nc, {}, 0), then the response: the task
\* is only queued here, it runs after the response has been produced.
InitCallback(r) ==
    /\ Idle
    /\ Dispatch(r.method, r.path) = "init_callback"
    /\ Len(tasks) < MaxTasks
    /\ req' = r
    /\ handler' = "init_callback"
    /\ tasks' = Append(tasks, "scheduled")
    /\ resp' = JSONResponse("{}")
    /\ call' = <<>>
    /\ backend' = NoResp
    /\ UNCHANGED <<pc, clients, hostLog, entry, issued>>

\* The background task, detached from the request that queued it.
TaskStarts(i) ==
    /\ i \in DOMAIN tasks
    /\ tasks[i] = "scheduled"
    /\ tasks' = [tasks EXCEPT ![i] = "running"]
    /\ UNCHANGED <<req, handler, pc, call, clients, backend, resp, hostLog, entry, issued>>

TaskSucceeds(i) ==
    /\ i \in DOMAIN tasks
    /\ tasks[i] = "running"
    /\ tasks' = [tasks EXCEPT ![i] = "done"]
    /\ UNCHANGED <<req, handler, pc, call, clients, backend, resp, hostLog, entry, issued>>

\* TaskFails in which the failure reaches the response of the request at hand.
TaskFailsSurfaced(i) ==
    /\ i \in DOMAIN tasks
    /\ tasks[i] = "running"
    /\ tasks' = [tasks EXCEPT ![i] = "failed"]
    /\ resp' = IF req = NoReq THEN resp ELSE ServerError
    /\ UNCHANGED <<req, handler, pc, call, clients, backend, entry, issued, hostLog>>

\* The task raises: the exception ends the task and is logged, nothing else.
TaskFails(i) ==
    /\ i \in DOMAIN tasks
    /\ tasks[i] = "running"
    /\ tasks' = [tasks EXCEPT ![i] = "failed"]
    /\ UNCHANGED <<req, handler, pc, call, clients, backend, resp, hostLog, entry, issued>>

HostCall(op, key) == [op |-> op, key |-> key]

\* EnabledHandlerCalls with the two branches exchanged.
EnabledHandlerCallsInverted(enabled) ==
    IF enabled
    THEN << HostCall("delete_script", "visionatrix"), HostCall("unregister", "visionatrix") >>
    ELSE << HostCall("set_script", "visionatrix"), HostCall("register", "visionatrix") >>

\* The host calls enabled_handler makes, in order.
EnabledHandlerCalls(enabled) ==
    IF enabled
    THEN << HostCall("set_script", "visionatrix"), HostCall("register", "visionatrix") >>
    ELSE << HostCall("delete_script", "visionatrix"), HostCall("unregister", "visionatrix") >>

\* The calls that are made when the host answers as out says: "ok", or the
\* first or the second call raises ("fail1", "fail2").  A raised call ends the
\* handler: nothing is caught.
IssuedCalls(enabled, out) ==
    IF out = "fail1" THEN SubSeq(EnabledHandlerCalls(enabled), 1, 1)
    ELSE EnabledHandlerCalls(enabled)

\* JSONResponse(content={"error": enabled_handler(enabled, nc)}); the handler
\* returns "".
EnabledResult(enabled, out) ==
    IF out = "ok" THEN JSONResponse("{\"error\":\"" \o "" \o "\"}")
    ELSE ServerError

EnabledCallback(r, enabled, out) ==
    /\ Idle
    /\ Dispatch(r.method, r.path) = "enabled_callback"
    /\ Len(hostLog) + 2 <= MaxHostLog
    /\ req' = [r EXCEPT !.query = IF enabled THEN "enabled=true" ELSE "enabled=false"]
    /\ handler' = "enabled_callback"
    /\ issued' = IssuedCalls(enabled, out)
    /\ hostLog' = hostLog \o IssuedCalls(enabled, out)
    /\ resp' = EnabledResult(enabled, out)
    /\ call' = <<>>
    /\ backend' = NoResp
    /\ UNCHANGED <<pc, clients, tasks, entry>>

----------------------------------------------------------------------------

Init ==
    /\ req = NoReq
    /\ handler = "none"
    /\ pc = "idle"
    /\ call = <<>>
    /\ clients = 0
    /\ backend = NoResp
    /\ resp = NoResp
    /\ entry = "none"
    /\ issued = <<>>
    /\ hostLog = <<>>
    /\ tasks = <<>>

Methods == RouteMethods \cup {"PROPFIND"}

StaticPaths ==
    {"", "index.html", "assets/a.js", "ex_app", "ex_app/js/m.js", "ex_apple/x",
     "ex_app/../../x", "../x", "../../../x", "a/../b", "api", "heartbeat/",
     "/x", "init", "docs"}

Req(m, p) == [method |-> m, path |-> p, query |-> "", headers |-> <<>>, body |-> ""]

Kinds == {"absent", "file", "dir"}

NextStatic ==
    \/ Idle /\ \E m \in Methods, p \in StaticPaths, k \in Kinds :
                    ProxyRequests(Req(m, p), k)
    \/ Idle /\ \E m \in Methods, p \in StaticPaths : RouterRejects(Req(m, p))
    \/ Complete

SpecStatic == Init /\ [][NextStatic]_vars

\* Sequences of at most n elements of S.
SeqsUpTo(S, n) == UNION {[1..k -> S] : k \in 0..n}

ReqHeaderLines == {<<"Host", "h">>, <<"Cookie", "a=1">>, <<"accept", "x">>, <<"accept", "y">>}

ApiTargets == {<<"api/x/y", "q=1">>, <<"api/", "">>}

ApiRequests ==
    {[method |-> m, path |-> t[1], query |-> t[2], headers |-> h, body |-> b] :
        m \in RouteMethods, t \in ApiTargets,
        h \in SeqsUpTo(ReqHeaderLines, MaxReqHeaders), b \in {"", "data"}}

RespHeaderLines ==
    {<<"Transfer-Encoding", "chunked">>, <<"set-cookie", "a=1">>, <<"set-cookie", "b=2">>}

BackendResponses ==
    {[kind |-> "response", status_code |-> sc[1], content |-> sc[2], headers |-> h] :
        sc \in {<<200, "ok">>, <<404, "">>},
        h \in SeqsUpTo(RespHeaderLines, MaxRespHeaders)}

NextApi ==
    \/ Idle /\ \E r \in ApiRequests : ProxyBackendRequests(r)
    \/ pc = "await_backend" /\ \E b \in BackendResponses : BackendResponds(b)
    \/ BackendFails
    \/ Complete

SpecApi == Init /\ [][NextApi]_vars

HostOutcomes == {"ok", "fail1", "fail2"}

LifecycleRequests ==
    {Req("GET", "heartbeat"), Req("POST", "init"), Req("PUT", "enabled")}

NextLifecycle ==
    \/ Idle /\ \E r \in LifecycleRequests : HeartbeatCallback(r)
    \/ Idle /\ \E r \in LifecycleRequests : InitCallback(r)
    \/ Idle /\ \E r \in LifecycleRequests, e \in BOOLEAN, o \in HostOutcomes :
                  EnabledCallback(r, e, o)
    \/ \E i \in 1..MaxTasks : TaskStarts(i)
    \/ \E i \in 1..MaxTasks : TaskSucceeds(i)
    \/ \E i \in 1..MaxTasks : TaskFails(i)
    \/ Complete

SpecLifecycle == Init /\ [][NextLifecycle]_vars

\* Every route with every method, the other inputs kept small.
RoutePaths ==
    {"heartbeat", "init", "enabled", "api/x/y", "api/", "api", "apix", "",
     "index.html", "ex_app/js/m.js", "heartbeat/", "init/x", "docs",
     "openapi.json", "docs/oauth2-redirect", "redoc"}

RouteBackendResponses ==
    {[kind |-> "response", status_code |-> 200, content |-> "ok", headers |-> <<>>]}

Next ==
    \/ Idle /\ \E m \in Methods, p \in RoutePaths : HeartbeatCallback(Req(m, p))
    \/ Idle /\ \E m \in Methods, p \in RoutePaths : InitCallback(Req(m, p))
    \/ Idle /\ \E m \in Methods, p \in RoutePaths, e \in BOOLEAN :
                  EnabledCallback(Req(m, p), e, "ok")
    \/ Idle /\ \E m \in Methods, p \in RoutePaths : ProxyBackendRequests(Req(m, p))
    \/ pc = "await_backend" /\ \E b \in RouteBackendResponses : BackendResponds(b)
    \/ BackendFails
    \/ Idle /\ \E m \in Methods, p \in RoutePaths, k \in Kinds :
                  ProxyRequests(Req(m, p), k)
    \/ Idle /\ \E m \in Methods, p \in RoutePaths : DocsPage(Req(m, p))
    \/ Idle /\ \E m \in Methods, p \in RoutePaths : RouterRejects(Req(m, p))
    \/ Complete

Spec == Init /\ [][Next]_vars

----------------------------------------------------------------------------
(* Properties of the API proxy, checked under SpecApi.                     *)

ClaimMethods == {"GET", "POST", "PUT", "DELETE", "PATCH", "HEAD", "OPTIONS"}

ApiHandled == handler = "proxy_backend_requests" /\ Len(call) >= 1

\* The backend's status code and body are what the client gets.
Relayed ==
    backend.kind = "response" =>
        /\ resp.kind = "response"
        /\ resp.status = backend.status_code
        /\ resp.body = backend.content

C1_WitnessPost ==
    /\ ApiHandled
    /\ req.method = "POST" /\ req.body = "data" /\ req.query = "q=1"
    /\ call[1].content = "data"
    /\ backend.kind = "response"

\* C2: the headers passed to the backend call hold no Host and no Cookie header
\* (in any letter case), hold every other header line of the client with its
\* value, and the client's cookies go through the cookies argument.
C2_AsStated ==
    ApiHandled =>
        /\ \A k \in DOMAIN call[1].headers : Lower(k) \notin {"host", "cookie"}
        /\ \A i \in DOMAIN req.headers :
              Lower(req.headers[i][1]) \notin {"host", "cookie"} =>
                  \E k \in DOMAIN call[1].headers :
                      /\ Lower(k) = Lower(req.headers[i][1])
                      /\ call[1].headers[k] = req.headers[i][2]
        /\ call[1].cookies = RequestCookies(req)

\* C3: the relayed response holds no Transfer-Encoding header (in any letter
\* case) and holds every other header line of the backend with its value.
C3_AsStated ==
    (ApiHandled /\ backend.kind = "response") =>
        /\ resp.kind = "response"
        /\ \A k \in DOMAIN resp.headers : Lower(k) # "transfer-encoding"
        /\ \A i \in DOMAIN backend.headers :
              Lower(backend.headers[i][1]) # "transfer-encoding" =>
                  \E k \in DOMAIN resp.headers :
                      /\ Lower(k) = Lower(backend.headers[i][1])
                      /\ resp.headers[k] = backend.headers[i][2]

\* C8: an API-proxied request makes exactly one backend call, whatever the
\* method and the outcome; when that call fails the failure leaves the handler
\* as a server error, no response is built from a backend response, and the
\* client context opened for the request is closed.
C8_OneCallFailurePropagates ==
    /\ handler = "proxy_backend_requests" => Len(call) = 1
    /\ pc = "await_backend" => clients = 1
    /\ pc = "idle" => clients = 0
    /\ backend = BackendFailed =>
          /\ Len(call) = 1
          /\ resp = ServerError
          /\ clients = 0

\* The backend call of a request has failed and the request is over.
C8_Witness ==
    /\ handler = "proxy_backend_requests"
    /\ req.method = "POST"
    /\ backend = BackendFailed
    /\ resp = ServerError
    /\ pc = "idle" /\ clients = 0

----------------------------------------------------------------------------
(* Properties of the static proxy, checked under SpecStatic.               *)

StaticHandled == handler = "proxy_requests" /\ resp # NoResp

HasPolicy(r) ==
    /\ "headers" \in DOMAIN r
    /\ "content-security-policy" \in DOMAIN r.headers
    /\ r.headers["content-security-policy"] =
          "default-src * 'unsafe-inline' 'unsafe-eval' data: blob:;"

\* C4 as stated: every response of proxy_requests, whether or not the resolved
\* file exists, carries the fixed content-security-policy header.
C4_AsStated == (StaticHandled /\ resp.kind # "error") => HasPolicy(resp)

\* C4 amended: every response of proxy_requests that serves a file carries the
\* fixed content-security-policy header; the 404 for a path that does not
\* exist carries no content-security-policy header.
C4_PolicyOnFiles ==
    StaticHandled =>
        /\ resp.kind = "file" => HasPolicy(resp)
        /\ entry = "absent" =>
              /\ resp.kind = "response" /\ resp.status = 404
              /\ "content-security-policy" \notin DOMAIN resp.headers

\* A file has been served, for a request method other than GET.
C4_Witness ==
    /\ StaticHandled
    /\ resp.kind = "file"
    /\ req.path = "assets/a.js"
    /\ req.method = "POST"

\* The path the claim resolves a request path to.
ReferencePath(p) ==
    IF p = "" THEN "../../Visionatrix/visionatrix/client/index.html"
    ELSE IF StartsWith(p, "ex_app") THEN "../../" \o p
    ELSE "../../Visionatrix/visionatrix/client/" \o p

\* C5: for every path and every content of the file system, the response is
\* 404 with an empty body exactly when the path the reference resolves to does
\* not exist, and is otherwise the file at that path.
C5_AsStated ==
    StaticHandled =>
        IF entry = "absent"
        THEN resp.kind = "response" /\ resp.status = 404 /\ resp.body = ""
        ELSE resp.kind = "file" /\ resp.file = Resolve(ReferencePath(req.path))

HasDotDot(p) == \E i \in DOMAIN Segments(p) : Segments(p)[i] = ".."

InstallRoot(loc) == loc.up = 0

InsideExApp(loc) == loc.up = 0 /\ IsPrefixSeq(<<"ex_app">>, loc.segs)

InsideClient(loc) ==
    loc.up = 0 /\ IsPrefixSeq(<<"Visionatrix", "visionatrix", "client">>, loc.segs)

\* C10 as stated: for every path ('..' segments and paths such as ex_apple/x
\* included) the file served lies inside the ex_app directory when the path
\* starts with the reserved prefix and inside the client directory otherwise.
C10_AsStated ==
    (StaticHandled /\ resp.kind = "file") =>
        IF StartsWith(req.path, "ex_app") THEN InsideExApp(resp.file)
        ELSE InsideClient(resp.file)

\* C10 amended: for every path without a '..' segment, the file served lies
\* inside the ex_app directory when the first segment of the path is ex_app,
\* inside the directory that holds ex_app (the target of ../../) when the path
\* only starts with the letters ex_app, and inside the client directory
\* otherwise.
C10_Containment ==
    (StaticHandled /\ resp.kind = "file" /\ ~HasDotDot(req.path)) =>
        IF Segments(req.path)[1] = "ex_app" THEN InsideExApp(resp.file)
        ELSE IF StartsWith(req.path, "ex_app") THEN InstallRoot(resp.file)
        ELSE InsideClient(resp.file)

\* A file served for a path that shares only the letters of the prefix.
C10_Witness ==
    /\ StaticHandled
    /\ resp.kind = "file"
    /\ req.path = "ex_apple/x"
    /\ resp.file = [up |-> 0, segs |-> <<"ex_apple", "x">>]

\* A file served from the ex_app directory.
C10_WitnessExApp ==
    /\ StaticHandled
    /\ resp.kind = "file"
    /\ req.path = "ex_app/js/m.js"
    /\ resp.file = [up |-> 0, segs |-> <<"ex_app", "js", "m.js">>]

----------------------------------------------------------------------------
(* Routing, checked under Spec.                                            *)

LifecyclePaths == {"heartbeat", "init", "enabled"}

LifecycleHandler(p) ==
    CASE p = "heartbeat" -> "heartbeat_callback"
      [] p = "init" -> "init_callback"
      [] p = "enabled" -> "enabled_callback"

LifecycleMethod(p) ==
    CASE p = "heartbeat" -> "GET" [] p = "init" -> "POST" [] p = "enabled" -> "PUT"

AppHandlers ==
    {"heartbeat_callback", "init_callback", "enabled_callback",
     "proxy_backend_requests", "proxy_requests"}

DocPaths == {"openapi.json", "docs", "docs/oauth2-redirect", "redoc"}

\* C9 as stated: every request is handled by exactly one handler; a request on
\* a lifecycle path by the lifecycle handler and never by the static proxy,
\* whatever its method; a request whose path begins with api/ by the API
\* proxy; only the requests matching neither by the static proxy.
C9_AsStated ==
    req # NoReq =>
        /\ handler \in AppHandlers
        /\ req.path \in LifecyclePaths => handler = LifecycleHandler(req.path)
        /\ StartsWith(req.path, "api/") => handler = "proxy_backend_requests"
        /\ handler = "proxy_requests" =>
              req.path \notin LifecyclePaths /\ ~StartsWith(req.path, "api/")

ProxiedMethods ==
    {"GET", "POST", "PUT", "DELETE", "OPTIONS", "HEAD", "PATCH", "TRACE"}

\* C9 amended: every request is handled by at most one handler, selected by
\* path and method: a request on a lifecycle path with the method of its route
\* by the lifecycle handler; a GET or HEAD request for one of FastAPI's own
\* pages by FastAPI; a request whose path begins with api/, with one of the
\* eight proxied methods, by the API proxy; every other request with one of
\* the eight proxied methods (a lifecycle path with another method included)
\* by the static proxy; a request with any other method by no handler.
C9_Routing ==
    req # NoReq =>
        handler =
            IF req.path \in LifecyclePaths /\ req.method = LifecycleMethod(req.path)
            THEN LifecycleHandler(req.path)
            ELSE IF req.path \in DocPaths /\ req.method \in {"GET", "HEAD"}
            THEN CASE req.path = "openapi.json" -> "openapi"
                   [] req.path = "docs" -> "swagger_ui_html"
                   [] req.path = "docs/oauth2-redirect" -> "swagger_ui_redirect"
                   [] req.path = "redoc" -> "redoc_html"
            ELSE IF req.method \notin ProxiedMethods THEN "none"
            ELSE IF StartsWith(req.path, "api/") THEN "proxy_backend_requests"
            ELSE "proxy_requests"

\* GET /init has been handled by the static proxy.
C9_Witness ==
    /\ req.path = "init" /\ req.method = "GET"
    /\ handler = "proxy_requests"
    /\ resp # NoResp

----------------------------------------------------------------------------
(* Lifecycle handlers, checked under SpecLifecycle.                        *)

EnabledHandled == handler = "enabled_callback"

AddCalls ==
    << [op |-> "set_script", key |-> "visionatrix"],
       [op |-> "register", key |-> "visionatrix"] >>

RemoveCalls ==
    << [op |-> "delete_script", key |-> "visionatrix"],
       [op |-> "unregister", key |-> "visionatrix"] >>

ExpectedCalls == IF req.query = "enabled=true" THEN AddCalls ELSE RemoveCalls

OkError ==
    resp.kind = "response" /\ resp.status = 200 /\ resp.body = "{\"error\":\"\"}"

\* C6 as stated: each PUT /enabled call issues exactly its two host calls in
\* order (add for true, remove for false), and each successful call returns
\* 200 {"error": ""}.
C6_AsStated ==
    EnabledHandled =>
        /\ issued = ExpectedCalls
        /\ resp.kind = "response" => OkError

\* The host calls of one /enabled request are appended to the record of all
\* host calls, in the order the requests are handled.
LogAppends ==
    (handler' = "enabled_callback" /\ handler # "enabled_callback") =>
        hostLog' = hostLog \o issued'

\* C6 amended: each PUT /enabled call that succeeds has issued exactly its two
\* host calls in order (set_script, register for true; delete_script,
\* unregister for false), all with the key visionatrix, and returns 200
\* {"error": ""}; a call in which a host call raises has issued only the calls
\* up to the one that raised and ends in a server error; the calls of
\* successive requests are recorded in request order.
C6_EnabledCalls ==
    /\ [](EnabledHandled =>
            /\ resp # ServerError => (issued = ExpectedCalls /\ OkError)
            /\ resp = ServerError =>
                  issued \in {SubSeq(ExpectedCalls, 1, 1), ExpectedCalls})
    /\ [][LogAppends]_vars

\* enabled=true then enabled=false, both successful: add, then remove.
C6_Witness ==
    /\ EnabledHandled
    /\ req.query = "enabled=false"
    /\ OkError
    /\ hostLog = AddCalls \o RemoveCalls

\* A call in which the first host call raised.
C6_WitnessFailure ==
    /\ EnabledHandled
    /\ resp = ServerError
    /\ issued = <<[op |-> "set_script", key |-> "visionatrix"]>>

InitHandled == handler = "init_callback"

OkEmpty == resp.kind = "response" /\ resp.status = 200 /\ resp.body = "{}"

\* POST /init queues one task, which has not run when the response is made.
InitSchedulesOne ==
    (handler' = "init_callback" /\ handler # "init_callback") =>
        /\ Len(tasks') = Len(tasks) + 1
        /\ SubSeq(tasks', 1, Len(tasks)) = tasks
        /\ tasks'[Len(tasks')] = "scheduled"
        /\ resp'.kind = "response" /\ resp'.status = 200 /\ resp'.body = "{}"

\* A step of a background task leaves every response as it is.
TaskStepsLeaveResponses ==
    (Len(tasks') = Len(tasks) /\ tasks' # tasks) => resp' = resp

\* C7: every POST /init schedules exactly one background task and answers 200
\* {} without waiting for it: the response is the same whether the task later
\* succeeds, fails or never finishes, and a failure of the task reaches the
\* response of no request.
C7_InitDoesNotWait ==
    /\ [](InitHandled => OkEmpty)
    /\ [][InitSchedulesOne]_vars
    /\ [][TaskStepsLeaveResponses]_vars

\* The task of the /init request at hand has failed; its response stands.
C7_Witness ==
    /\ InitHandled
    /\ OkEmpty
    /\ tasks = <<"failed">>

=============================================================================
